---- MODULE Spec2Model ----
(***************************************************************************)
(* A model of attendance.py: the SQLite-backed AttendanceDatabase (People, *)
(* Sessions, Attendance tables) and the AttendanceSystem that matches face *)
(* encodings against its in-memory lists and marks attendance.             *)
(*                                                                         *)
(* Units.  The clock counts whole seconds since 00:00:00 of day 0; every   *)
(* value the program keeps of it goes through strftime, which drops the    *)
(* sub-second part.  A face encoding is a vector of coordinates in tenths, *)
(* and an averaged encoding is kept as an exact fraction num/den.          *)
(***************************************************************************)
EXTENDS Integers, Sequences, FiniteSets, TLC

VARIABLES
    clock,                  \* datetime.now(), in seconds since day 0 00:00:00
    People,                 \* table People, in rowid order
    Sessions,               \* table Sessions, in rowid order
    session_clock,          \* for each row of Sessions, the clock reading at which it was created
    Attendance,             \* table Attendance, in rowid order
    known_face_encodings,   \* AttendanceSystem.known_face_encodings
    known_face_names,       \* AttendanceSystem.known_face_names
    encoding_owner,         \* for each known_face_encodings entry: the People id it is stored under,
                            \* and whether register_new_person appended it
    run,                    \* take_attendance: "idle", "running", "stopped", or the error it raised
    run_args,               \* take_attendance's (session_name, subject)
    run_started,            \* the clock reading at which take_attendance was called
    marked_people,          \* take_attendance's local set marked_people
    processed_people,       \* the person ids the run has passed to mark_attendance
    face_encodings,         \* faces of the current frame not yet processed
    AttendanceAll,          \* the ledger of the same run with every detection passed to mark_attendance
    proc,                   \* concurrent writers: each process's position in mark_attendance
    last                    \* the last operation: its arguments, its result and the branch it took

vars == <<clock, People, Sessions, session_clock, Attendance, known_face_encodings,
          known_face_names, encoding_owner, run, run_args, run_started, marked_people,
          processed_people, face_encodings, AttendanceAll, proc, last>>

dbVars == <<People, Sessions, session_clock, Attendance>>
sysVars == <<known_face_encodings, known_face_names, encoding_owner>>
runVars == <<run, run_args, run_started, marked_people, processed_people, face_encodings,
             AttendanceAll>>

----------------------------------------------------------------------------
(* Bounds of the model. *)

MaxPeople == 2        \* people register_new_person stores
MaxUnencoded == 1     \* people register_person stores without an encoding
MaxSessions == 2      \* rows of Sessions
MaxAttendance == 2    \* rows of Attendance
MaxSamples == 2       \* face samples register_new_person captures (the code stops at 40)
MaxFaces == 2         \* faces detected in one frame
MaxKnown == 3         \* entries of known_face_encodings
MaxReportRows == 3    \* rows of Attendance a report is taken of

UnencodedNames == {"asha"}   \* the names given to register_person
NewNames == {"ravi"}         \* the names given to register_new_person
SessionNames == {"lec1"}
Subjects == {"math", "phys"}
PersonIds == {1, 2}
Procs == {1, 2}

(* The face samples the camera yields and the faces it later sees, in      *)
(* tenths.  From <<0, 0>>: <<6, 0>> is at distance 0.6 exactly, <<3, 0>>   *)
(* (the mean of the two samples) at 0.3.  <<3, 4>> is at 0.5 from both     *)
(* samples.  <<8, 0>> is at 0.8, 0.2 and 0.5 from the three.               *)
Samples == {<<0, 0>>, <<6, 0>>}
Queries == {<<0, 0>>, <<3, 4>>, <<8, 0>>}

DaySeconds == 24 * 60 * 60

(* The first reading of the clock, 23:49:58 of day 0. *)
T0 == 85798

(* The readings the clock takes.  For a session started at T0: 10:00 and   *)
(* 10:01 later on the same day, and 10:02 later, which is midnight.  For a *)
(* session started at T0+1: 9:59, 10:00 and, at midnight, 10:01 later.     *)
Instants == {T0, T0 + 1, T0 + 600, T0 + 601, T0 + 602}

----------------------------------------------------------------------------
(* datetime formatting and parsing. *)

(* strftime("%Y-%m-%d"): the calendar day, as the ordinal of the day. *)
StrftimeDate(t) == t \div DaySeconds

(* strftime("%H:%M:%S"): hour, minute, second of the time of day. *)
StrftimeTime(t) ==
    LET s == t % DaySeconds
    IN  <<s \div 3600, (s % 3600) \div 60, s % 60>>

(* strptime(s, "%H:%M:%S"): a datetime on the default date 1900-01-01, as  *)
(* seconds since the midnight of that date.                                *)
StrptimeTime(hms) == hms[1] * 3600 + hms[2] * 60 + hms[3]

(* ORDER BY on a TEXT time column: "HH:MM:SS" strings compare as triples. *)
TimeLess(a, b) ==
    \/ a[1] < b[1]
    \/ a[1] = b[1] /\ a[2] < b[2]
    \/ a[1] = b[1] /\ a[2] = b[2] /\ a[3] < b[3]

----------------------------------------------------------------------------
(* The database. *)

(* A NULL face_encoding BLOB. *)
NULL == [num |-> <<>>, den |-> 0]

(* INTEGER PRIMARY KEY: the next rowid is one more than the largest; rows  *)
(* are never deleted, so a table of n rows holds the ids 1..n.             *)
NextId(table) == Len(table) + 1

(* The session duration create_session stores, in minutes. *)
DefaultDuration == 10

(* register_person as an upsert: a row with the name is rewritten in place. *)
register_person_update(people, name, face_encoding, now) ==
    IF \E i \in 1..Len(people) : people[i].name = name
    THEN [i \in 1..Len(people) |->
             IF people[i].name = name
             THEN [people[i] EXCEPT !.face_encoding = face_encoding,
                                    !.registration_date = StrftimeDate(now)]
             ELSE people[i]]
    ELSE Append(people, [id |-> Len(people) + 1, name |-> name,
                         face_encoding |-> face_encoding,
                         registration_date |-> StrftimeDate(now)])

(* register_person: INSERT INTO People. *)
register_person(people, name, face_encoding, now) ==
    Append(people, [id |-> NextId(people), name |-> name,
                    face_encoding |-> face_encoding,
                    registration_date |-> StrftimeDate(now)])

(* create_session: INSERT INTO Sessions with the current time of day.      *)
create_session(sessions, name, subject, now) ==
    Append(sessions, [id |-> NextId(sessions), name |-> name, subject |-> subject,
                      start_time |-> StrftimeTime(now), duration |-> DefaultDuration])

(* The matching rows with the newest first. *)
SessionRowsNewestFirst(sessions, name, subject) ==
    LET rows == SelectSeq(sessions, LAMBDA s : s.name = name /\ s.subject = subject)
    IN  [i \in 1..Len(rows) |-> rows[Len(rows) + 1 - i]]

(* SELECT ... FROM Sessions WHERE name = ? AND subject = ?, then fetchone: *)
(* the rows that match, in rowid order; fetchone takes the first.          *)
SessionRows(sessions, name, subject) ==
    SelectSeq(sessions, LAMBDA s : s.name = name /\ s.subject = subject)

(* The window check on the size of the difference, whatever its sign. *)
WindowOverAbsolute(time_now, session) ==
    \/ StrptimeTime(time_now) - StrptimeTime(session.start_time) > session.duration * 60
    \/ StrptimeTime(session.start_time) - StrptimeTime(time_now) > session.duration * 60

(* The window check with >= in place of >. *)
WindowOverInclusive(time_now, session) ==
    StrptimeTime(time_now) - StrptimeTime(session.start_time) >= session.duration * 60

(* (current_time - session_start).total_seconds() > duration * 60 *)
WindowOver(time_now, session) ==
    StrptimeTime(time_now) - StrptimeTime(session.start_time) > session.duration * 60

(* The duplicate check with the row id compared in place of person_id. *)
AlreadyMarkedById(attendance, person_id, session_id, date) ==
    \E i \in 1..Len(attendance) :
        /\ attendance[i].id = person_id
        /\ attendance[i].session_id = session_id
        /\ attendance[i].date = date

(* SELECT id FROM Attendance WHERE person_id = ? AND session_id = ? AND    *)
(* date = ?, then fetchone is not None.                                    *)
AlreadyMarked(attendance, person_id, session_id, date) ==
    \E i \in 1..Len(attendance) :
        /\ attendance[i].person_id = person_id
        /\ attendance[i].session_id = session_id
        /\ attendance[i].date = date

(* INSERT INTO Attendance ... 'Present'. *)
InsertAttendance(attendance, person_id, session_id, date, time_now) ==
    Append(attendance, [id |-> NextId(attendance), person_id |-> person_id,
                        session_id |-> session_id, date |-> date,
                        time |-> time_now, status |-> "Present"])

(* mark_attendance with the duplicate check moved before the window check. *)
mark_attendance_duplicate_first(sessions, attendance, person_id, session_name, subject, date, time_now) ==
    LET rows == SessionRows(sessions, session_name, subject)
    IN  IF rows = <<>>
        THEN [ret |-> FALSE, branch |-> "no_session", session_id |-> 0,
              attendance |-> attendance]
        ELSE LET session == Head(rows)
             IN  IF AlreadyMarked(attendance, person_id, session.id, date)
                 THEN [ret |-> FALSE, branch |-> "already_marked",
                       session_id |-> session.id, attendance |-> attendance]
                 ELSE IF WindowOver(time_now, session)
                      THEN [ret |-> FALSE, branch |-> "time_over",
                            session_id |-> session.id, attendance |-> attendance]
                      ELSE [ret |-> TRUE, branch |-> "inserted",
                            session_id |-> session.id,
                            attendance |-> InsertAttendance(attendance, person_id,
                                                            session.id, date, time_now)]

(* mark_attendance with the INSERT run before the duplicate check is used: *)
(* a recorded person is inserted again, and False is returned.             *)
mark_attendance_insert_first(sessions, attendance, person_id, session_name, subject, date, time_now) ==
    LET rows == SessionRows(sessions, session_name, subject)
    IN  IF rows = <<>>
        THEN [ret |-> FALSE, branch |-> "no_session", session_id |-> 0,
              attendance |-> attendance]
        ELSE LET session == Head(rows)
             IN  IF WindowOver(time_now, session)
                 THEN [ret |-> FALSE, branch |-> "time_over", session_id |-> session.id,
                       attendance |-> attendance]
                 ELSE [ret |-> ~AlreadyMarked(attendance, person_id, session.id, date),
                       branch |-> IF AlreadyMarked(attendance, person_id, session.id, date)
                                  THEN "already_marked" ELSE "inserted",
                       session_id |-> session.id,
                       attendance |-> InsertAttendance(attendance, person_id,
                                                       session.id, date, time_now)]

(* mark_attendance run by one process without interruption: the value it   *)
(* returns, the branch it took, the session it resolved (0: none) and the  *)
(* Attendance table it leaves.  date and time_now are its two readings of  *)
(* datetime.now().                                                         *)
mark_attendance(sessions, attendance, person_id, session_name, subject, date, time_now) ==
    LET rows == SessionRows(sessions, session_name, subject)
    IN  IF rows = <<>>
        THEN [ret |-> FALSE, branch |-> "no_session", session_id |-> 0,
              attendance |-> attendance]
        ELSE LET session == Head(rows)
             IN  IF WindowOver(time_now, session)
                 THEN [ret |-> FALSE, branch |-> "time_over", session_id |-> session.id,
                       attendance |-> attendance]
                 ELSE IF AlreadyMarked(attendance, person_id, session.id, date)
                      THEN [ret |-> FALSE, branch |-> "already_marked",
                            session_id |-> session.id, attendance |-> attendance]
                      ELSE [ret |-> TRUE, branch |-> "inserted",
                            session_id |-> session.id,
                            attendance |-> InsertAttendance(attendance, person_id,
                                                            session.id, date, time_now)]

(* FROM Attendance a JOIN People p ON a.person_id = p.id JOIN Sessions s   *)
(* ON a.session_id = s.id: the rows of Attendance that have their person   *)
(* and their session, in rowid order (id is the primary key of People and  *)
(* of Sessions, so a row joins with at most one of each).                  *)
Joinable(people, sessions, attendance) ==
    SelectSeq(attendance,
              LAMBDA a : /\ \E i \in 1..Len(people) : people[i].id = a.person_id
                         /\ \E j \in 1..Len(sessions) : sessions[j].id = a.session_id)

(* SELECT p.name, s.name AS session, s.subject, a.date, a.time, a.status *)
ReportRow(people, sessions, a) ==
    LET p == CHOOSE row \in {people[i] : i \in 1..Len(people)} : row.id = a.person_id
        s == CHOOSE row \in {sessions[j] : j \in 1..Len(sessions)} : row.id = a.session_id
    IN  [name |-> p.name, session |-> s.name, subject |-> s.subject,
         date |-> a.date, time |-> a.time, status |-> a.status]

JoinRows(people, sessions, attendance) ==
    [i \in 1..Len(Joinable(people, sessions, attendance)) |->
        ReportRow(people, sessions, Joinable(people, sessions, attendance)[i])]

(* An ordering by date descending, then time ascending. *)
OrderedBeforeTimeAsc(a, b) ==
    \/ a.date > b.date
    \/ a.date = b.date /\ TimeLess(a.time, b.time)

(* ORDER BY a.date DESC, a.time DESC: row a has to come before row b.  The *)
(* dates are "%Y-%m-%d" strings, which compare as the days they name.      *)
OrderedBefore(a, b) ==
    \/ a.date > b.date
    \/ a.date = b.date /\ TimeLess(b.time, a.time)

(* The places at which a row can be put into a sorted list: after every    *)
(* row that has to come before it, before every row that has to come after *)
(* it.  SQL leaves the order of rows with equal keys open.                 *)
Places(sorted, row) ==
    {k \in 0..Len(sorted) :
        /\ \A i \in 1..k : ~OrderedBefore(row, sorted[i])
        /\ \A i \in (k + 1)..Len(sorted) : ~OrderedBefore(sorted[i], row)}

RECURSIVE order_by(_)
(* The lists a sort of `rows` can return. *)
order_by(rows) ==
    IF rows = <<>> THEN {<<>>}
    ELSE UNION {{SubSeq(sorted, 1, k) \o <<Head(rows)>> \o SubSeq(sorted, k + 1, Len(sorted)) :
                    k \in Places(sorted, Head(rows))} : sorted \in order_by(Tail(rows))}

(* get_attendance_report: the data frames the query can return. *)
get_attendance_report(people, sessions, attendance) ==
    order_by(JoinRows(people, sessions, attendance))

(* The two readings of datetime.now() in mark_attendance: the date first,  *)
(* the time of day second; the clock may move on between them.             *)
SecondReadings(now) == {t \in Instants : t = now \/ t = now + 1}

----------------------------------------------------------------------------
(* Face encodings and the matcher. *)

RECURSIVE Gcd(_, _)
Gcd(a, b) == IF b = 0 THEN a ELSE Gcd(b, a % b)

RECURSIVE SumCoord(_, _)
(* The sum of coordinate i over the first k vectors of a list is           *)
(* SumCoord(<<list, i>>, k).                                               *)
SumCoord(li, k) == IF k = 0 THEN 0 ELSE li[1][k][li[2]] + SumCoord(li, k - 1)

(* The value num/den of an encoding, in lowest terms. *)
Fraction(num, den) ==
    LET g == Gcd(den, Gcd(num[1], num[2]))
    IN  [num |-> [i \in DOMAIN num |-> num[i] \div g], den |-> den \div g]

(* np.mean(encodings, axis=0): the component-wise mean of a non-empty list *)
(* of samples.                                                             *)
np_mean(encodings) ==
    Fraction([i \in 1..2 |-> SumCoord(<<encodings, i>>, Len(encodings))],
             Len(encodings))

(* face_encoding.tobytes() and np.frombuffer(encoding, dtype=np.float64)   *)
(* carry the float64 values unchanged; a BLOB holds the same fraction.     *)
tobytes(face_encoding) == face_encoding
frombuffer(blob) == blob

(* The Euclidean distance of face q from a known encoding e, kept as its   *)
(* square, an exact fraction of hundredths: sum_i (e_i - q_i)^2.           *)
DistanceSq(e, q) ==
    [num |-> (e.num[1] - q[1] * e.den) * (e.num[1] - q[1] * e.den)
             + (e.num[2] - q[2] * e.den) * (e.num[2] - q[2] * e.den),
     den |-> e.den * e.den]

(* face_recognition.face_distance(known, q): one distance per known        *)
(* encoding, the empty array for an empty list.                            *)
face_distance(known, q) == [i \in 1..Len(known) |-> DistanceSq(known[i], q)]

(* a < b for two distances (the square root is increasing). *)
DistLess(a, b) == a.num * b.den < b.num * a.den

RECURSIVE ArgminLastFrom(_, _, _)
(* A scan that keeps the last smallest element. *)
ArgminLastFrom(distances, i, best) ==
    IF i > Len(distances) THEN best
    ELSE IF DistLess(distances[best], distances[i])
         THEN ArgminLastFrom(distances, i + 1, best)
         ELSE ArgminLastFrom(distances, i + 1, i)

argmin_last(distances) == ArgminLastFrom(distances, 2, 1)

RECURSIVE ArgminFrom(_, _, _)
(* np.argmin scans left to right and keeps the first smallest element.     *)
ArgminFrom(distances, i, best) ==
    IF i > Len(distances) THEN best
    ELSE IF DistLess(distances[i], distances[best])
         THEN ArgminFrom(distances, i + 1, i)
         ELSE ArgminFrom(distances, i + 1, best)

(* np.argmin(distances), for a non-empty array; indices count from 1 here. *)
argmin(distances) == ArgminFrom(distances, 2, 1)

(* The tolerance 0.6, in tenths. *)
Tolerance == 6

(* distances[best_match] <= 0.6 *)
WithinToleranceInclusive(d) == d.num <= Tolerance * Tolerance * d.den

(* distances[best_match] < 0.6 *)
WithinTolerance(d) == d.num < Tolerance * Tolerance * d.den

(* SELECT id, name, face_encoding FROM People, keeping the rows whose      *)
(* encoding is not None.                                                   *)
EncodedPeople(people) == SelectSeq(people, LAMBDA row : row.face_encoding # NULL)

(* What an operation leaves in last. *)
NoCall == [op |-> "none", person_id |-> 0, session_name |-> "", subject |-> "",
           date |-> 0, time_now |-> <<0, 0, 0>>, session_id |-> 0,
           ret |-> FALSE, branch |-> "", face |-> <<>>, best_match |-> 0,
           matched |-> FALSE, name |-> "", report |-> <<>>, samples |-> 0]

Called(op) == [NoCall EXCEPT !.op = op]

(* A process that is not in mark_attendance. *)
Idle == [pc |-> "idle", person_id |-> 0, session_id |-> 0,
         date |-> 0, time_now |-> <<0, 0, 0>>]

----------------------------------------------------------------------------
(* The initial state: a new database file, a new AttendanceSystem. *)

Init ==
    /\ clock = T0
    /\ People = <<>>
    /\ Sessions = <<>>
    /\ session_clock = <<>>
    /\ Attendance = <<>>
    /\ known_face_encodings = <<>>
    /\ known_face_names = <<>>
    /\ encoding_owner = <<>>
    /\ run = "idle"
    /\ run_args = <<"", "">>
    /\ run_started = T0
    /\ marked_people = {}
    /\ processed_people = {}
    /\ face_encodings = <<>>
    /\ AttendanceAll = <<>>
    /\ proc = [p \in Procs |-> Idle]
    /\ last = NoCall

(* Time passes. *)
Tick ==
    /\ \E t \in Instants : t > clock /\ clock' = t
    /\ last' = Called("tick")
    /\ UNCHANGED <<dbVars, sysVars, runVars, proc>>

(* AttendanceDatabase.register_person(name, None): a person without an     *)
(* encoding.                                                               *)
RegisterPerson(name) ==
    /\ Len(People) - Len(EncodedPeople(People)) < MaxUnencoded
    /\ People' = register_person(People, name, NULL, clock)
    /\ last' = Called("register_person")
    /\ UNCHANGED <<clock, Sessions, session_clock, Attendance, sysVars, runVars, proc>>

(* AttendanceDatabase.create_session(name, subject). *)
CreateSession(name, subject) ==
    /\ Len(Sessions) < MaxSessions
    /\ Sessions' = create_session(Sessions, name, subject, clock)
    /\ session_clock' = Append(session_clock, clock)
    /\ last' = Called("create_session")
    /\ UNCHANGED <<clock, People, Attendance, sysVars, runVars, proc>>

(* AttendanceDatabase.mark_attendance(person_id, session_name, subject). *)
MarkAttendance(person_id, session_name, subject) ==
    \E t2 \in SecondReadings(clock) :
        LET date == StrftimeDate(clock)
            time_now == StrftimeTime(t2)
            r == mark_attendance(Sessions, Attendance, person_id, session_name,
                                 subject, date, time_now)
        IN  /\ Len(Attendance) < MaxAttendance
            /\ clock' = t2
            /\ Attendance' = r.attendance
            /\ last' = [NoCall EXCEPT !.op = "mark_attendance",
                                      !.person_id = person_id,
                                      !.session_name = session_name,
                                      !.subject = subject,
                                      !.date = date, !.time_now = time_now,
                                      !.session_id = r.session_id,
                                      !.ret = r.ret, !.branch = r.branch]
            /\ UNCHANGED <<People, Sessions, session_clock, sysVars, runVars, proc>>

(* AttendanceDatabase.get_attendance_report(). *)
GetAttendanceReport ==
    /\ \E df \in get_attendance_report(People, Sessions, Attendance) :
          last' = [Called("get_attendance_report") EXCEPT !.report = df]
    /\ UNCHANGED <<clock, dbVars, sysVars, runVars, proc>>

----------------------------------------------------------------------------
(* The AttendanceSystem. *)

(* The faces one frame can show: up to MaxFaces encodings. *)
Frames == UNION {[1..n -> Queries] : n \in 0..MaxFaces}

(* The sample lists register_new_person can capture: none (no frame showed *)
(* a face, or 'q' came first) up to MaxSamples.                            *)
SampleLists == UNION {[1..n -> Samples] : n \in 0..MaxSamples}

(* load_known_faces: append every encoded row of People to both lists. *)
load_encodings(known, people) ==
    known \o [i \in 1..Len(EncodedPeople(people)) |->
                 frombuffer(EncodedPeople(people)[i].face_encoding)]

(* The names of every row of People, with or without an encoding. *)
load_names_unfiltered(names, people) ==
    names \o [i \in 1..Len(people) |-> <<people[i].id, people[i].name>>]

load_names(names, people) ==
    names \o [i \in 1..Len(EncodedPeople(people)) |->
                 <<EncodedPeople(people)[i].id, EncodedPeople(people)[i].name>>]

load_owners(owners, people) ==
    owners \o [i \in 1..Len(EncodedPeople(people)) |->
                  [id |-> EncodedPeople(people)[i].id, registered |-> FALSE]]

(* What register_new_person appends to known_face_names: nothing. *)
register_names(names, person_id, name) == names

(* AttendanceSystem(): empty lists, then load_known_faces.  The program    *)
(* does this each time it is started on the database file.                 *)
Construct ==
    /\ run # "running"
    /\ known_face_encodings' = load_encodings(<<>>, People)
    /\ known_face_names' = load_names(<<>>, People)
    /\ encoding_owner' = load_owners(<<>>, People)
    /\ run' = "idle"
    /\ run_args' = <<"", "">>
    /\ run_started' = T0
    /\ marked_people' = {}
    /\ processed_people' = {}
    /\ face_encodings' = <<>>
    /\ AttendanceAll' = <<>>
    /\ last' = Called("construct")
    /\ UNCHANGED <<clock, dbVars, proc>>

(* load_known_faces() called again on the same instance. *)
LoadKnownFaces ==
    /\ run \in {"idle", "stopped"}
    /\ Len(known_face_encodings) + Len(EncodedPeople(People)) <= MaxKnown
    /\ known_face_encodings' = load_encodings(known_face_encodings, People)
    /\ known_face_names' = load_names(known_face_names, People)
    /\ encoding_owner' = load_owners(encoding_owner, People)
    /\ last' = Called("load_known_faces")
    /\ UNCHANGED <<clock, dbVars, runVars, proc>>

(* A test that asks for more than one captured sample. *)
CapturedSeveral(encodings) == Len(encodings) > 1

(* if encodings: a non-empty list is true. *)
Captured(encodings) == encodings # <<>>

(* register_new_person(name), the camera having yielded `encodings`. *)
RegisterNewPerson(name, encodings) ==
    /\ run \in {"idle", "stopped"}
    /\ Len(EncodedPeople(People)) < MaxPeople
    /\ Len(known_face_encodings) < MaxKnown
    /\ IF Captured(encodings)
       THEN LET avg_encoding == np_mean(encodings)
            IN  /\ People' = register_person(People, name, tobytes(avg_encoding), clock)
                /\ known_face_encodings' = Append(known_face_encodings, avg_encoding)
                /\ known_face_names' =
                       register_names(known_face_names, NextId(People), name)
                /\ encoding_owner' = Append(encoding_owner,
                                             [id |-> NextId(People), registered |-> TRUE])
                /\ last' = [Called("register_new_person") EXCEPT
                               !.ret = TRUE, !.person_id = NextId(People),
                               !.name = name, !.samples = Len(encodings)]
       ELSE /\ last' = [Called("register_new_person") EXCEPT
                           !.name = name, !.samples = Len(encodings)]
            /\ UNCHANGED <<People, sysVars>>
    /\ UNCHANGED <<clock, Sessions, session_clock, Attendance, runVars, proc>>

(* take_attendance(session_name, subject) up to its loop.  The set         *)
(* registered_ids it builds is never read.                                 *)
TakeAttendance(session_name, subject) ==
    /\ run \in {"idle", "stopped"}
    /\ run' = "running"
    /\ run_args' = <<session_name, subject>>
    /\ run_started' = clock
    /\ marked_people' = {}
    /\ processed_people' = {}
    /\ face_encodings' = <<>>
    /\ AttendanceAll' = Attendance
    /\ last' = Called("take_attendance")
    /\ UNCHANGED <<clock, dbVars, sysVars, proc>>

(* cap.read() gives a frame, in which the encoder finds `faces`. *)
ReadFrame(faces) ==
    /\ run = "running"
    /\ face_encodings = <<>>
    /\ face_encodings' = faces
    /\ last' = Called("read_frame")
    /\ UNCHANGED <<clock, dbVars, sysVars, run, run_args, run_started, marked_people,
                   processed_people, AttendanceAll, proc>>

(* The loop body without the test of len(distances). *)
HasDistancesUnchecked(distances) == TRUE

(* person_id not in marked_people, the test the wrong way round. *)
ShortCircuitInverted(person_id, marked) == person_id \notin marked

(* len(distances) > 0 *)
HasDistances(distances) == Len(distances) > 0

(* person_id in marked_people: the detection is skipped. *)
ShortCircuit(person_id, marked) == person_id \in marked

(* marked_people.add(person_id) whatever mark_attendance returned. *)
add_marked_always(marked, person_id, ret) == marked \cup {person_id}

(* if self.db.mark_attendance(...): marked_people.add(person_id) *)
add_marked(marked, person_id, ret) == IF ret THEN marked \cup {person_id} ELSE marked

(* The body of the loop over the faces of a frame, for the next face.      *)
(* np.argmin of an empty array raises ValueError, known_face_names of an   *)
(* index past its end raises IndexError; neither is caught, so the         *)
(* exception ends take_attendance.                                         *)
ProcessFace ==
    /\ run = "running"
    /\ face_encodings # <<>>
    /\ Len(AttendanceAll) < MaxAttendance
    /\ face_encodings' = Tail(face_encodings)
    /\ LET face_encoding == Head(face_encodings)
           distances == face_distance(known_face_encodings, face_encoding)
           face == [Called("face") EXCEPT !.face = face_encoding]
       IN  IF ~HasDistances(distances)
           THEN /\ last' = face
                /\ UNCHANGED <<clock, dbVars, run, marked_people, processed_people,
                               AttendanceAll>>
           ELSE IF Len(distances) = 0
           THEN /\ run' = "ValueError"
                /\ last' = [face EXCEPT !.branch = "ValueError"]
                /\ UNCHANGED <<clock, dbVars, marked_people, processed_people,
                               AttendanceAll>>
           ELSE LET best_match == argmin(distances) IN
           IF ~WithinTolerance(distances[best_match])
           THEN /\ last' = [face EXCEPT !.best_match = best_match]
                /\ UNCHANGED <<clock, dbVars, run, marked_people, processed_people,
                               AttendanceAll>>
           ELSE IF best_match > Len(known_face_names)
           THEN /\ run' = "IndexError"
                /\ last' = [face EXCEPT !.best_match = best_match, !.matched = TRUE,
                                        !.branch = "IndexError"]
                /\ UNCHANGED <<clock, dbVars, marked_people, processed_people,
                               AttendanceAll>>
           ELSE \E t2 \in SecondReadings(clock) :
                LET person_id == known_face_names[best_match][1]
                    name == known_face_names[best_match][2]
                    date == StrftimeDate(clock)
                    time_now == StrftimeTime(t2)
                    r == mark_attendance(Sessions, Attendance, person_id,
                                         run_args[1], run_args[2], date, time_now)
                    all == mark_attendance(Sessions, AttendanceAll, person_id,
                                           run_args[1], run_args[2], date, time_now)
                    found == [face EXCEPT !.best_match = best_match, !.matched = TRUE,
                                          !.person_id = person_id, !.name = name]
                IN  /\ AttendanceAll' = all.attendance
                    /\ IF ShortCircuit(person_id, marked_people)
                       THEN /\ last' = [found EXCEPT !.branch = "short_circuit"]
                            /\ UNCHANGED <<clock, dbVars, run, marked_people,
                                           processed_people>>
                       ELSE /\ clock' = t2
                            /\ Attendance' = r.attendance
                            /\ marked_people' = add_marked(marked_people, person_id, r.ret)
                            /\ processed_people' = processed_people \cup {person_id}
                            /\ last' = [found EXCEPT
                                           !.session_name = run_args[1],
                                           !.subject = run_args[2],
                                           !.date = date, !.time_now = time_now,
                                           !.session_id = r.session_id,
                                           !.ret = r.ret, !.branch = r.branch]
                            /\ UNCHANGED <<People, Sessions, session_clock, run>>
    /\ UNCHANGED <<sysVars, run_args, run_started, proc>>

(* cap.read() fails, or 'q' is pressed once the frame's faces are done. *)
StopTakeAttendance ==
    /\ run = "running"
    /\ face_encodings = <<>>
    /\ run' = "stopped"
    /\ last' = Called("stop")
    /\ UNCHANGED <<clock, dbVars, sysVars, run_args, run_started, marked_people,
                   processed_people, face_encodings, AttendanceAll, proc>>

(* A database file on which one session was created at T0 and one person   *)
(* was registered without an encoding, and a new AttendanceSystem on it.   *)
InitSystem ==
    /\ clock = T0
    /\ People = register_person(<<>>, "asha", NULL, T0)
    /\ Sessions = create_session(<<>>, "lec1", "math", T0)
    /\ session_clock = <<T0>>
    /\ Attendance = <<>>
    /\ known_face_encodings = load_encodings(<<>>, People)
    /\ known_face_names = load_names(<<>>, People)
    /\ encoding_owner = load_owners(<<>>, People)
    /\ run = "idle"
    /\ run_args = <<"", "">>
    /\ run_started = T0
    /\ marked_people = {}
    /\ processed_people = {}
    /\ face_encodings = <<>>
    /\ AttendanceAll = <<>>
    /\ proc = [p \in Procs |-> Idle]
    /\ last = NoCall

NextSystem ==
    \/ Tick
    \/ Construct
    \/ LoadKnownFaces
    \/ \E name \in NewNames, encodings \in SampleLists :
          RegisterNewPerson(name, encodings)
    \/ \E name \in SessionNames, subject \in Subjects : TakeAttendance(name, subject)
    \/ \E faces \in Frames : ReadFrame(faces)
    \/ ProcessFace
    \/ StopTakeAttendance

SpecSystem == InitSystem /\ [][NextSystem]_vars

----------------------------------------------------------------------------
(* Two processes on the same database file, each in mark_attendance.  A    *)
(* process runs alone between two statements on the database; SQLite makes *)
(* each SELECT, and each INSERT with its commit, atomic.                   *)

InFlight == {p \in Procs : proc[p].pc # "idle"}

(* mark_attendance from its call to the first SELECT and the window check. *)
MarkBegin(p, person_id, session_name, subject) ==
    \E t2 \in SecondReadings(clock) :
        LET date == StrftimeDate(clock)
            time_now == StrftimeTime(t2)
            rows == SessionRows(Sessions, session_name, subject)
            branch == IF rows = <<>> THEN "no_session"
                      ELSE IF WindowOver(time_now, Head(rows)) THEN "time_over"
                      ELSE "select"
        IN  /\ proc[p].pc = "idle"
            /\ Len(Attendance) + Cardinality(InFlight) < MaxAttendance
            /\ clock' = t2
            /\ proc' = [proc EXCEPT ![p] =
                          IF branch = "select"
                          THEN [pc |-> "select", person_id |-> person_id,
                                session_id |-> Head(rows).id, date |-> date,
                                time_now |-> time_now]
                          ELSE Idle]
            /\ last' = [Called("mark_begin") EXCEPT !.person_id = person_id,
                                                    !.branch = branch]
            /\ UNCHANGED <<dbVars, sysVars, runVars>>

(* The duplicate check: SELECT id FROM Attendance ..., then fetchone. *)
MarkSelect(p) ==
    /\ proc[p].pc = "select"
    /\ LET found == AlreadyMarked(Attendance, proc[p].person_id, proc[p].session_id,
                                  proc[p].date)
       IN  /\ proc' = [proc EXCEPT ![p] =
                          IF found THEN Idle ELSE [proc[p] EXCEPT !.pc = "insert"]]
           /\ last' = [Called("mark_select") EXCEPT
                          !.person_id = proc[p].person_id,
                          !.branch = IF found THEN "already_marked" ELSE "insert"]
    /\ UNCHANGED <<clock, dbVars, sysVars, runVars>>

(* The INSERT and its commit; mark_attendance returns True. *)
MarkInsert(p) ==
    /\ proc[p].pc = "insert"
    /\ Attendance' = InsertAttendance(Attendance, proc[p].person_id,
                                      proc[p].session_id, proc[p].date,
                                      proc[p].time_now)
    /\ proc' = [proc EXCEPT ![p] = Idle]
    /\ last' = [Called("mark_insert") EXCEPT !.person_id = proc[p].person_id,
                                             !.ret = TRUE, !.branch = "inserted"]
    /\ UNCHANGED <<clock, People, Sessions, session_clock, sysVars, runVars>>

NextConcurrent ==
    \/ Tick
    \/ \E name \in SessionNames, subject \in Subjects : CreateSession(name, subject)
    \/ \E p \in Procs, person_id \in PersonIds, name \in SessionNames,
          subject \in Subjects : MarkBegin(p, person_id, name, subject)
    \/ \E p \in Procs : MarkSelect(p)
    \/ \E p \in Procs : MarkInsert(p)

SpecConcurrent == Init /\ [][NextConcurrent]_vars

----------------------------------------------------------------------------
(* get_attendance_report on the ledgers mark_attendance can have written.  *)

(* The pairs of readings (date, time) a call of mark_attendance can take. *)
Stamps == {st \in Instants \X Instants : st[2] \in SecondReadings(st[1])}

(* The row a call with these readings inserts, if it inserts one: the      *)
(* session exists at the first reading and the window check passes.        *)
Writable(sessions, created, session_id, st) ==
    /\ created[session_id] <= st[1]
    /\ ~WindowOver(StrftimeTime(st[2]), sessions[session_id])

(* The ledgers of up to MaxReportRows rows that calls of mark_attendance,  *)
(* one after the other on the clock, can have written; two writers can     *)
(* have recorded the same person twice.                                    *)
ReportLedgers(sessions, created) ==
    UNION {{[i \in 1..n |->
                [id |-> i, person_id |-> w[i][1], session_id |-> w[i][2],
                 date |-> StrftimeDate(w[i][3][1]), time |-> StrftimeTime(w[i][3][2]),
                 status |-> "Present"]] :
             w \in {w \in [1..n -> PersonIds \X (1..Len(sessions)) \X Stamps] :
                       /\ \A i \in 1..n : Writable(sessions, created, w[i][2], w[i][3])
                       /\ \A i \in 1..(n - 1) : w[i][3][2] <= w[i + 1][3][1]}} :
           n \in 0..MaxReportRows}

(* A database with the sessions ("lec1", "math"), created at T0, and       *)
(* ("lec1", "phys"), created a second later, one or two people, and such a *)
(* ledger.                                                                 *)
InitReport ==
    /\ clock = T0 + 602
    /\ People \in {register_person(<<>>, "asha", NULL, T0),
                   register_person(register_person(<<>>, "asha", NULL, T0),
                                   "ravi", NULL, T0)}
    /\ Sessions = create_session(create_session(<<>>, "lec1", "math", T0),
                                 "lec1", "phys", T0 + 1)
    /\ session_clock = <<T0, T0 + 1>>
    /\ Attendance \in ReportLedgers(Sessions, session_clock)
    /\ known_face_encodings = <<>>
    /\ known_face_names = <<>>
    /\ encoding_owner = <<>>
    /\ run = "idle"
    /\ run_args = <<"", "">>
    /\ run_started = T0
    /\ marked_people = {}
    /\ processed_people = {}
    /\ face_encodings = <<>>
    /\ AttendanceAll = <<>>
    /\ proc = [p \in Procs |-> Idle]
    /\ last = NoCall

NextReport == GetAttendanceReport

SpecReport == InitReport /\ [][NextReport]_vars

----------------------------------------------------------------------------
(* Every operation that touches the database, on a database in which a     *)
(* person "asha" is stored with an encoding, and an AttendanceSystem       *)
(* constructed on it.                                                      *)

InitStores ==
    /\ clock = T0
    /\ People = register_person(<<>>, "asha", tobytes(np_mean(<<<<0, 0>>>>)), T0)
    /\ Sessions = <<>>
    /\ session_clock = <<>>
    /\ Attendance = <<>>
    /\ known_face_encodings = load_encodings(<<>>, People)
    /\ known_face_names = load_names(<<>>, People)
    /\ encoding_owner = load_owners(<<>>, People)
    /\ run = "idle"
    /\ run_args = <<"", "">>
    /\ run_started = T0
    /\ marked_people = {}
    /\ processed_people = {}
    /\ face_encodings = <<>>
    /\ AttendanceAll = <<>>
    /\ proc = [p \in Procs |-> Idle]
    /\ last = NoCall

NextStores ==
    \/ Tick
    \/ \E name \in UnencodedNames : RegisterPerson(name)
    \/ \E name \in SessionNames, subject \in Subjects : CreateSession(name, subject)
    \/ \E person_id \in PersonIds, name \in SessionNames, subject \in Subjects :
          MarkAttendance(person_id, name, subject)
    \/ GetAttendanceReport
    \/ LoadKnownFaces

SpecStores == InitStores /\ [][NextStores]_vars

Next ==
    \/ Tick
    \/ \E name \in UnencodedNames : RegisterPerson(name)
    \/ \E name \in SessionNames, subject \in Subjects : CreateSession(name, subject)
    \/ \E person_id \in PersonIds, name \in SessionNames, subject \in Subjects :
          MarkAttendance(person_id, name, subject)

Spec == Init /\ [][Next]_vars

----------------------------------------------------------------------------
(* Properties. *)

(* The rows of a ledger that record one (person, session, date). *)
RowsFor(attendance, person_id, session_id, date) ==
    {i \in 1..Len(attendance) : /\ attendance[i].person_id = person_id
                                /\ attendance[i].session_id = session_id
                                /\ attendance[i].date = date}

(* No two rows of a ledger record the same (person, session, date). *)
AtMostOnePerTriple(attendance) ==
    \A i, j \in 1..Len(attendance) :
        (/\ attendance[i].person_id = attendance[j].person_id
         /\ attendance[i].session_id = attendance[j].session_id
         /\ attendance[i].date = attendance[j].date) => i = j

(* A step of Spec that is a call of mark_attendance which resolved a       *)
(* session for a person already recorded for that session and date.        *)
SecondMark ==
    /\ last'.op = "mark_attendance"
    /\ last'.session_id # 0
    /\ RowsFor(Attendance, last'.person_id, last'.session_id, last'.date) # {}

(* C1: with one process calling create_session, register_person and        *)
(* mark_attendance, the ledger never holds two rows for one (person,       *)
(* session, date), and a mark_attendance for a person already recorded for *)
(* the session and date returns False and leaves exactly one such row.     *)
C1_DuplicatePrevention ==
    /\ [](AtMostOnePerTriple(Attendance))
    /\ [][SecondMark =>
            /\ last'.ret = FALSE
            /\ Cardinality(RowsFor(Attendance', last'.person_id, last'.session_id,
                                   last'.date)) = 1]_vars

(* A second mark_attendance for a recorded person was rejected. *)
C1_Witness ==
    /\ last.op = "mark_attendance"
    /\ last.branch = "already_marked"
    /\ Cardinality(RowsFor(Attendance, last.person_id, last.session_id, last.date)) = 1

(* C2: with two processes in mark_attendance on the same database, the     *)
(* ledger never holds two rows for one (person, session, date).            *)
C2_UniqueUnderConcurrentWriters == AtMostOnePerTriple(Attendance)

(* The seconds from the creation of the session a mark_attendance step    *)
(* resolved to its reading of the time.                                    *)
Elapsed == clock' - session_clock[last'.session_id]

(* C3: a mark_attendance that resolves a session passes the window check   *)
(* exactly when at most duration * 60 seconds have passed since the        *)
(* session was created: later it is rejected as over and writes nothing    *)
(* (so at 10:01), and up to then a person not yet recorded is recorded (so *)
(* at 9:59).                                                               *)
C3_WindowEnforcement ==
    [][(last'.op = "mark_attendance" /\ last'.session_id # 0) =>
          /\ Elapsed > DefaultDuration * 60 =>
                last'.branch = "time_over" /\ Attendance' = Attendance
          /\ (/\ Elapsed <= DefaultDuration * 60
              /\ RowsFor(Attendance, last'.person_id, last'.session_id,
                         last'.date) = {}) =>
                last'.ret = TRUE /\ Len(Attendance') = Len(Attendance) + 1]_vars

(* C5: mark_attendance returns True exactly when it appended one row to    *)
(* Attendance; when it returns False it is for one of the three rejections *)
(* and Attendance is unchanged; People and Sessions are never changed.     *)
C5_RejectionsWriteNothing ==
    [][last'.op = "mark_attendance" =>
          /\ People' = People
          /\ Sessions' = Sessions
          /\ last'.ret = TRUE <=>
                /\ Len(Attendance') = Len(Attendance) + 1
                /\ SubSeq(Attendance', 1, Len(Attendance)) = Attendance
          /\ last'.ret = FALSE <=> Attendance' = Attendance
          /\ last'.ret = FALSE =>
                last'.branch \in {"no_session", "time_over", "already_marked"}
          /\ SessionRows(Sessions, last'.session_name, last'.subject) = <<>> =>
                last'.ret = FALSE
          /\ last'.branch = "time_over" => last'.ret = FALSE
          /\ (/\ last'.session_id # 0
              /\ RowsFor(Attendance, last'.person_id, last'.session_id,
                         last'.date) # {}) => last'.ret = FALSE]_vars

(* A mark_attendance was rejected as over with a row already in the ledger. *)
C5_Witness ==
    /\ last.op = "mark_attendance"
    /\ last.branch = "time_over"
    /\ last.ret = FALSE
    /\ Attendance # <<>>

(* The distances of the face of the last step from the known encodings. *)
LastDistances == face_distance(known_face_encodings, last.face)

(* C4: a face whose nearest known encoding, nearer than 0.6, is one that   *)
(* register_new_person appended to this instance is resolved to the        *)
(* (id, name) under which that person was stored.                          *)
C4_RegisteredIsMatchable ==
    (/\ last.op = "face"
     /\ last.matched
     /\ encoding_owner[last.best_match].registered) =>
        /\ run = "running"
        /\ last.person_id = encoding_owner[last.best_match].id
        /\ last.name = People[encoding_owner[last.best_match].id].name

(* C6: for a non-empty list of known encodings, the index take_attendance  *)
(* selects has the smallest Euclidean distance from the face, and every    *)
(* lower index has a strictly larger distance.                             *)
C6_MatchingCorrectness ==
    (last.op = "face" /\ known_face_encodings # <<>>) =>
        /\ last.best_match \in 1..Len(known_face_encodings)
        /\ \A j \in 1..Len(known_face_encodings) :
              ~DistLess(LastDistances[j], LastDistances[last.best_match])
        /\ \A j \in 1..(last.best_match - 1) :
              DistLess(LastDistances[last.best_match], LastDistances[j])

(* Two known encodings were at the same, smallest distance from a face. *)
C6_Witness ==
    /\ last.op = "face"
    /\ \E j \in 1..Len(known_face_encodings) :
          /\ j > last.best_match
          /\ last.best_match >= 1
          /\ ~DistLess(LastDistances[last.best_match], LastDistances[j])
          /\ ~DistLess(LastDistances[j], LastDistances[last.best_match])

(* The squared distance, in hundredths, of the face of a step from the     *)
(* encoding the step selected.                                             *)
BestDistanceSq == face_distance(known_face_encodings, last'.face)[last'.best_match]

(* C7: the selected encoding is used exactly when its distance is below    *)
(* 0.6 (its square below 0.36); at 0.6 or above the face is unknown: no    *)
(* mark_attendance call, no row written, the loop goes on.                 *)
C7_ThresholdBoundary ==
    [][(last'.op = "face" /\ known_face_encodings # <<>>) =>
          /\ last'.matched <=> BestDistanceSq.num < 36 * BestDistanceSq.den
          /\ ~last'.matched =>
                /\ last'.branch = ""
                /\ Attendance' = Attendance
                /\ run' = run]_vars

(* A face at distance 0.6 exactly from the nearest known encoding was      *)
(* treated as unknown.                                                     *)
C7_Witness ==
    /\ last.op = "face"
    /\ known_face_encodings # <<>>
    /\ ~last.matched
    /\ LastDistances[last.best_match].num = 36 * LastDistances[last.best_match].den

(* C8: with no known encodings, processing a face raises nothing, matches  *)
(* nothing, calls mark_attendance for nobody and leaves the ledger alone.  *)
C8_EmptyStoreSafety ==
    [][(last'.op = "face" /\ known_face_encodings = <<>>) =>
          /\ run' = "running"
          /\ ~last'.matched
          /\ last'.best_match = 0
          /\ last'.branch = ""
          /\ Attendance' = Attendance
          /\ face_encodings' = Tail(face_encodings)]_vars

(* A face was processed with no known encodings. *)
C8_Witness ==
    /\ last.op = "face"
    /\ known_face_encodings = <<>>
    /\ ~last.matched
    /\ run = "running"

(* C9: take_attendance never ends in an unhandled error. *)
C9_FailuresAreNonFatal == run \notin {"IndexError", "ValueError"}

(* C10: in a take_attendance run, the ledger is the one the same run       *)
(* leaves when every detection is passed to mark_attendance.               *)
C10_MarkedSetIsOptimisation == run # "idle" => AttendanceAll = Attendance

(* C10, amended: the same, while the clock is on the date on which         *)
(* take_attendance was called.                                             *)
C10_SameDateRunsAgree ==
    (run # "idle" /\ StrftimeDate(clock) = StrftimeDate(run_started)) =>
        AttendanceAll = Attendance

(* A detection of a person marked earlier in the run was skipped, on the   *)
(* date of the call.                                                       *)
C10_Witness ==
    /\ run = "running"
    /\ last.op = "face"
    /\ last.branch = "short_circuit"
    /\ last.person_id \in marked_people
    /\ StrftimeDate(clock) = StrftimeDate(run_started)

(* The branches of a detection that called mark_attendance. *)
MarkBranches == {"no_session", "time_over", "already_marked", "inserted"}

(* C11: in a take_attendance run, a detection resolved to a person the run *)
(* has already passed to mark_attendance, whether that call was accepted   *)
(* or rejected, is skipped: it causes no further mark_attendance call.     *)
C11_ProcessedIsShortCircuited ==
    [][(last'.op = "face" /\ last'.person_id \in processed_people) =>
          last'.branch = "short_circuit"]_vars

(* C11, amended: a detection resolved to a person is skipped, with no      *)
(* mark_attendance call and nothing written, exactly when mark_attendance  *)
(* has returned True for that person earlier in the run; a person whose    *)
(* call was rejected is not put in the set and is passed to                *)
(* mark_attendance again.                                                  *)
C11_MarkedIsShortCircuited ==
    /\ [](marked_people \subseteq processed_people)
    /\ [][(last'.op = "face" /\ last'.person_id # 0) =>
             /\ last'.person_id \in marked_people =>
                   /\ last'.branch = "short_circuit"
                   /\ Attendance' = Attendance
                   /\ marked_people' = marked_people
                   /\ processed_people' = processed_people
             /\ last'.person_id \notin marked_people =>
                   /\ last'.branch \in MarkBranches
                   /\ processed_people' = processed_people \cup {last'.person_id}
                   /\ marked_people' = IF last'.ret
                                       THEN marked_people \cup {last'.person_id}
                                       ELSE marked_people]_vars
    /\ [][(run = "running" /\ last'.op # "face") => marked_people' = marked_people]_vars

(* A detection of a person recorded earlier in the run was skipped. *)
C11_Witness ==
    /\ last.op = "face"
    /\ last.branch = "short_circuit"
    /\ last.person_id \in processed_people
    /\ \E i \in 1..Len(Attendance) : Attendance[i].person_id = last.person_id

(* Every row of the old table is, unchanged and at its place, in the new. *)
IsPrefix(old, new) == Len(old) <= Len(new) /\ SubSeq(new, 1, Len(old)) = old

(* The primary keys of a table. *)
Ids(table) == {table[i].id : i \in 1..Len(table)}

(* C12: no step changes or deletes a row of People, Sessions or            *)
(* Attendance: each table of the old state is, row for row, the beginning  *)
(* of the table of the new state; a registration, of a name already stored *)
(* too, adds exactly one row, under an id no old row has.                  *)
C12_StoresAppendOnly ==
    [][/\ IsPrefix(People, People')
       /\ IsPrefix(Sessions, Sessions')
       /\ IsPrefix(Attendance, Attendance')
       /\ last'.op \in {"register_person", "register_new_person"} /\ People' # People =>
             /\ Len(People') = Len(People) + 1
             /\ People'[Len(People')].id \notin Ids(People)
       /\ last'.op = "register_person" => People' # People
       /\ last'.op \in {"get_attendance_report", "load_known_faces"} =>
             People' = People /\ Sessions' = Sessions /\ Attendance' = Attendance]_vars

(* A name was registered again, and is stored under two ids. *)
C12_Witness ==
    /\ last.op = "register_person"
    /\ \E i, j \in 1..Len(People) :
          /\ i < j
          /\ People[i].name = People[j].name
          /\ People[i].id # People[j].id
          /\ People[i].registration_date # People[j].registration_date

(* The rows of Attendance whose person and session are stored. *)
Joined == {i \in 1..Len(Attendance) : /\ Attendance[i].person_id \in Ids(People)
                                      /\ Attendance[i].session_id \in Ids(Sessions)}

(* The row of the report for row i of Attendance. *)
RowOf(i) ==
    [name |-> People[Attendance[i].person_id].name,
     session |-> Sessions[Attendance[i].session_id].name,
     subject |-> Sessions[Attendance[i].session_id].subject,
     date |-> Attendance[i].date, time |-> Attendance[i].time,
     status |-> Attendance[i].status]

(* Row a of a report is not older than row b. *)
NotOlder(a, b) ==
    \/ a.date > b.date
    \/ a.date = b.date /\ StrptimeTime(a.time) >= StrptimeTime(b.time)

(* C13: the report has exactly one row for each row of Attendance whose    *)
(* person and session are stored, and no other row; its rows are in the    *)
(* order of descending date and, within a date, of descending time.        *)
C13_ReportOrdering ==
    last.op = "get_attendance_report" =>
        /\ Len(last.report) = Cardinality(Joined)
        /\ \E f \in [1..Len(last.report) -> Joined] :
              /\ \A k, l \in 1..Len(last.report) : f[k] = f[l] => k = l
              /\ \A k \in 1..Len(last.report) : last.report[k] = RowOf(f[k])
        /\ \A k, l \in 1..Len(last.report) : k < l => NotOlder(last.report[k], last.report[l])

(* A report of three records of different dates and times, stored oldest   *)
(* first, lists them newest first.                                         *)
C13_Witness ==
    /\ last.op = "get_attendance_report"
    /\ Len(last.report) = 3
    /\ Len(Attendance) = 3
    /\ last.report[1].date > last.report[3].date
    /\ \A k \in 1..2 : ~NotOlder(last.report[k + 1], last.report[k])
    /\ \A k \in 1..3 : last.report[k] = RowOf(4 - k)

(* For a mark_attendance step that resolved a session: the seconds from    *)
(* the time of day at which the session was created to the time of day of  *)
(* the step's reading of the time (negative when that is earlier in the    *)
(* day), and the seconds the session allows.                               *)
TimeOfDayDifference == (clock' % DaySeconds) - (session_clock[last'.session_id] % DaySeconds)

Allowed == Sessions[last'.session_id].duration * 60

(* C14: the window check compares times of day only: a mark_attendance     *)
(* that resolved a session is rejected as over exactly when the time of    *)
(* day of the attempt minus that of the session's start exceeds            *)
(* duration * 60 seconds, on whatever date the attempt is made; when it is *)
(* earlier in the day than the start, or at most that long after it, a     *)
(* person not yet recorded for the session on that date is recorded.       *)
C14_DatelessWindowCheck ==
    [][(last'.op = "mark_attendance" /\ last'.session_id # 0) =>
          /\ last'.branch = "time_over" <=> TimeOfDayDifference > Allowed
          /\ (/\ TimeOfDayDifference <= Allowed
              /\ RowsFor(Attendance, last'.person_id, last'.session_id,
                         StrftimeDate(clock)) = {}) =>
                /\ last'.ret = TRUE
                /\ Attendance' = Append(Attendance,
                       [id |-> Len(Attendance) + 1, person_id |-> last'.person_id,
                        session_id |-> last'.session_id, date |-> StrftimeDate(clock),
                        time |-> StrftimeTime(clock'), status |-> "Present"])]_vars

(* A person was recorded on the day after the session was created, at a    *)
(* time of day earlier than its start and more than duration minutes after *)
(* its creation.                                                           *)
C14_Witness ==
    /\ last.op = "mark_attendance"
    /\ last.ret = TRUE
    /\ last.date > StrftimeDate(session_clock[last.session_id])
    /\ StrptimeTime(last.time_now) < StrptimeTime(Sessions[last.session_id].start_time)
    /\ clock - session_clock[last.session_id] > Sessions[last.session_id].duration * 60

(* C15: known_face_encodings and known_face_names have the same length,    *)
(* entry i of both is of the same stored person: the id and name of the    *)
(* People row whose encoding entry i holds; a person stored without an     *)
(* encoding is in neither list.                                            *)
C15_ParallelLists ==
    /\ Len(known_face_encodings) = Len(known_face_names)
    /\ \A i \in 1..Len(known_face_encodings) :
          /\ i \in 1..Len(known_face_names)
          /\ known_face_names[i][1] = encoding_owner[i].id
          /\ known_face_names[i][2] = People[encoding_owner[i].id].name
          /\ known_face_encodings[i] = frombuffer(People[encoding_owner[i].id].face_encoding)
    /\ \A i \in 1..Len(known_face_names) :
          People[known_face_names[i][1]].face_encoding # NULL
    /\ \A i \in 1..Len(encoding_owner) :
          People[encoding_owner[i].id].face_encoding # NULL

(* A session with the name and subject of a mark_attendance step is stored. *)
SessionStored ==
    \E i \in 1..Len(Sessions) :
        Sessions[i].name = last'.session_name /\ Sessions[i].subject = last'.subject

(* C16: mark_attendance resolves the session, then checks the window, then *)
(* looks for a duplicate: with no session of that name and subject it      *)
(* rejects as no session; with the window over it rejects as over, also    *)
(* for a person already recorded for the session today; it gets to the     *)
(* duplicate query only with a session resolved and the window not over.   *)
C16_OrderOfDecisionSteps ==
    [][last'.op = "mark_attendance" =>
          /\ ~SessionStored <=> last'.branch = "no_session"
          /\ SessionStored =>
                /\ last'.session_id # 0
                /\ TimeOfDayDifference > Allowed <=> last'.branch = "time_over"
                /\ TimeOfDayDifference <= Allowed =>
                      last'.branch =
                          IF RowsFor(Attendance, last'.person_id, last'.session_id,
                                     last'.date) # {}
                          THEN "already_marked" ELSE "inserted"]_vars

(* A person already recorded for the session today was rejected as over. *)
C16_Witness ==
    /\ last.op = "mark_attendance"
    /\ last.branch = "time_over"
    /\ RowsFor(Attendance, last.person_id, last.session_id, last.date) # {}

(* Row i of a table of sessions is stored under a name and subject. *)
HasKey(sessions, i, name, subject) ==
    sessions[i].name = name /\ sessions[i].subject = subject

(* The id of the first stored session of a name and subject; 0 for none. *)
FirstStored(sessions, name, subject) ==
    IF \E i \in 1..Len(sessions) : HasKey(sessions, i, name, subject)
    THEN sessions[CHOOSE i \in 1..Len(sessions) :
                     /\ HasKey(sessions, i, name, subject)
                     /\ \A j \in 1..(i - 1) : ~HasKey(sessions, j, name, subject)].id
    ELSE 0

(* C17: every mark_attendance for a name and subject under which sessions  *)
(* are stored resolves to the first stored of them, however many more are  *)
(* created under the same name and subject; the window check uses the      *)
(* start and duration of that session alone, and every row of Attendance   *)
(* references the first stored session of its session's name and subject.  *)
C17_DuplicateKeyResolution ==
    /\ [](\A i \in 1..Len(Attendance) :
             /\ Attendance[i].session_id \in Ids(Sessions)
             /\ Attendance[i].session_id =
                   FirstStored(Sessions, Sessions[Attendance[i].session_id].name,
                               Sessions[Attendance[i].session_id].subject))
    /\ [][Sessions' # Sessions =>
             \A name \in SessionNames, subject \in Subjects :
                FirstStored(Sessions, name, subject) # 0 =>
                   FirstStored(Sessions', name, subject) = FirstStored(Sessions, name, subject)]_vars
    /\ [][(last'.op = "mark_attendance" /\ SessionStored) =>
             LET first == FirstStored(Sessions, last'.session_name, last'.subject)
             IN  /\ last'.session_id = first
                 /\ last'.branch = "time_over" <=>
                       (clock' % DaySeconds) - (session_clock[first] % DaySeconds)
                           > Sessions[first].duration * 60
                 /\ last'.ret = TRUE =>
                       Attendance'[Len(Attendance')].session_id = first]_vars

(* With two sessions of one name and subject stored, a mark_attendance     *)
(* was rejected as over by the start of the first, within the window of    *)
(* the second.                                                             *)
C17_Witness ==
    /\ Len(Sessions) = 2
    /\ Sessions[1].name = Sessions[2].name
    /\ Sessions[1].subject = Sessions[2].subject
    /\ last.op = "mark_attendance"
    /\ last.session_id = 1
    /\ last.branch = "time_over"
    /\ session_clock[2] <= clock
    /\ clock - session_clock[2] <= Sessions[2].duration * 60
    /\ ~WindowOver(last.time_now, Sessions[2])

(* C18: a register_new_person that captured no face sample stores no       *)
(* person and leaves known_face_encodings and known_face_names as they     *)
(* were; one that captured at least one sample stores exactly one new      *)
(* person, under the name given and with an encoding.                      *)
C18_NoFaceDetected ==
    [][last'.op = "register_new_person" =>
          /\ Sessions' = Sessions
          /\ Attendance' = Attendance
          /\ last'.samples = 0 =>
                /\ People' = People
                /\ known_face_encodings' = known_face_encodings
                /\ known_face_names' = known_face_names
          /\ last'.samples > 0 =>
                /\ Len(People') = Len(People) + 1
                /\ IsPrefix(People, People')
                /\ People'[Len(People')].name = last'.name
                /\ People'[Len(People')].face_encoding # NULL]_vars

(* With a person stored and encodings in memory, a register_new_person     *)
(* captured no sample.                                                     *)
C18_Witness ==
    /\ last.op = "register_new_person"
    /\ last.samples = 0
    /\ known_face_encodings # <<>>
    /\ EncodedPeople(People) # <<>>

(* C19: a mark_attendance made at or after the creation of the session it  *)
(* resolves is rejected as over only when more than duration * 60 seconds  *)
(* have passed since the creation, dates counted; an attempt within that   *)
(* time of the creation is never rejected as over, across midnight too.    *)
C19_ErrsTowardAcceptance ==
    [][(last'.op = "mark_attendance" /\ last'.session_id # 0) =>
          /\ Elapsed >= 0
          /\ last'.branch = "time_over" => Elapsed > Allowed
          /\ Elapsed <= Allowed => last'.branch \in {"already_marked", "inserted"}]_vars

(* A person was recorded on the day after the session was created, within  *)
(* duration minutes of its creation.                                       *)
C19_Witness ==
    /\ last.op = "mark_attendance"
    /\ last.branch = "inserted"
    /\ last.date > StrftimeDate(session_clock[last.session_id])
    /\ clock - session_clock[last.session_id] <= Sessions[last.session_id].duration * 60

(* C20: with take_attendance the only writer of the ledger, every row of   *)
(* Attendance has the status 'Present', the id of a stored session and the *)
(* id of a stored person who has an encoding; the run that adds a row was  *)
(* started with the name and subject of the row's session.                 *)
C20_ReferentialIntegrity ==
    /\ [](\A i \in 1..Len(Attendance) :
             /\ Attendance[i].status = "Present"
             /\ Attendance[i].session_id \in Ids(Sessions)
             /\ Attendance[i].person_id \in Ids(People)
             /\ People[Attendance[i].person_id].face_encoding # NULL)
    /\ [][Attendance' # Attendance =>
             /\ run = "running"
             /\ last'.op = "face"
             /\ Len(Attendance') = Len(Attendance) + 1
             /\ Sessions[Attendance'[Len(Attendance')].session_id].name = run_args[1]
             /\ Sessions[Attendance'[Len(Attendance')].session_id].subject = run_args[2]]_vars

(* A run recorded a person, with a person without an encoding stored too. *)
C20_Witness ==
    /\ run = "running"
    /\ last.op = "face"
    /\ last.branch = "inserted"
    /\ Attendance # <<>>
    /\ \E i \in 1..Len(People) : People[i].face_encoding = NULL

====
